---- MODULE Spec2Model ----
(***************************************************************************)
(* The k6 load-test library: its token manager (lib/auth/tokenManager.js), *)
(* its CSV data manager and error logger (lib/data/csvManager.js), its     *)
(* correlation manager (correlationManager.js) and its response validators *)
(* (lib/validation/validators.js).  The modules share no state but the     *)
(* abort of the run, so each has a specification of its own in which the   *)
(* variables of the others keep their initial values: Spec and SpecFleet   *)
(* for the token manager, SpecData for the data manager, SpecCorr for the  *)
(* correlation manager, SpecValid for the validators, SpecErr for the      *)
(* error logger and SpecSummary for the summary of the error log that      *)
(* handleSummary prints at the end of a run.                               *)
(*                                                                         *)
(* Token manager.                                                          *)
(*                                                                         *)
(* k6 runs setup() in one JavaScript VM and every virtual user (VU) in a   *)
(* VM of its own.  The module-level variables tokenCache and refreshLock   *)
(* therefore exist once per VM ("context"): context 0 is the setup VM,     *)
(* the contexts above it are the VUs.  The value returned by setup() is    *)
(* JSON-serialised when setup() returns and every VU receives a copy.      *)
(* As the library documents, setup() calls initTokenManager and the VUs    *)
(* call getToken and forceRefreshToken.                                    *)
(*                                                                         *)
(* The VMs share no memory: a VU is affected by nothing but its copy of    *)
(* the setup data, the clock and the auth server.  Spec is the setup VM    *)
(* with one VU; SpecFleet runs a second VU beside it.                      *)
(*                                                                         *)
(* A handler that issues the token request blocks in http.request; other   *)
(* VMs run and time passes meanwhile.  Such a handler is modelled by its   *)
(* call (everything up to the request) and by the arrival of the response  *)
(* (everything after it); handlers that issue no request are one action.   *)
(***************************************************************************)
EXTENDS Integers, Sequences, FiniteSets, TLC

(* ------------------------------ bounds --------------------------------- *)
MaxTokens == 2
MaxExpirySeconds == 1
TimeStep == 400
MaxElapsed == 1700
StartTime == 10000

(* bounds of the data manager's inputs *)
MaxRows == 3
MaxLowIteration == 3

(* bound of the correlation manager's inputs: the index beyond the array *)
MaxIndex == 5

(* validation: the validateResponse calls that reach the metrics *)
MaxValidations == 2

(* error logger: the records a VM accumulates, when the calls take every   *)
(* combination of arguments and when they take a few                       *)
MaxLogged == 2
MaxErrors == 5

(* the length of a response body longer than what a record keeps of it *)
LongBody == 201

(* ------------------------- program constants --------------------------- *)
DefaultExpirySeconds == 600
MsPerSecond == 1000
RefreshTenths == 8
(* getUniqueData: "Assuming max 1000 iterations per VU" *)
MaxIterationsPerVU == 1000
(* validateResponse: the default expected status, the response-time        *)
(* ceiling in milliseconds and the range of the statuses that are not      *)
(* business errors                                                         *)
DefaultExpectedStatus == 200
ResponseTimeCeiling == 5000
SuccessFrom == 200
SuccessBelow == 300
(* error logger: how much of a response body a record keeps, and how many  *)
(* records of an API the summary lists                                     *)
BodyExcerpt == 200
ShownLimit == 3

SetupCtx == 0
VUs == {1}
(* a second VU, for the specification of concurrent VUs *)
FleetVUs == {1, 2}
FleetCtx == {SetupCtx} \cup FleetVUs

(* ------------------------------ values --------------------------------- *)
(* A field of the configuration is 0 when it is missing or empty (falsy);  *)
(* url and password are 1 when present, username names the account (1 the  *)
(* admin, 2 the user).  expirySeconds is the lifetime in seconds, or        *)
(* Undefined in a configuration that leaves it out; the code accepts any   *)
(* lifetime, so 0 is tried beside a positive one.  A configuration that    *)
(* lacks a required field is rejected before its lifetime is looked at, so *)
(* one lifetime stands for all there.                                      *)
Undefined == -2
NullConfig == [url |-> 0, username |-> 0, password |-> 0, expirySeconds |-> 0]
Lifetimes == {Undefined, 0, MaxExpirySeconds}
Configs ==
    {config \in [url : 0..1, username : 0..2, password : 0..1,
                 expirySeconds : Lifetimes] :
        (config.url = 0 \/ config.username = 0 \/ config.password = 0)
            => config.expirySeconds = MaxExpirySeconds}

(* A token names the account it was issued for and is numbered in the      *)
(* order of issue; NullToken is JavaScript's null.                         *)
NullToken == [user |-> 0, n |-> 0]

(* null for the two timestamps of the cache *)
Null == -1

EmptyCache == [token |-> NullToken, expiresAt |-> Null, generatedAt |-> Null,
               config |-> NullConfig]

(* The response to the token request: its status and what its body holds   *)
(* at config.tokenPath.  "none": no body (res.body is null); "text": a     *)
(* body that is not JSON; "json_missing": JSON where the path resolves to  *)
(* undefined or null or crosses a missing member; "json_falsy": JSON where *)
(* the path resolves to a non-null falsy value ("", 0, false);             *)
(* "json_token": JSON where the path resolves to a token.                  *)
Statuses == {0, 200, 201, 500}
Bodies == {"none", "text", "json_missing", "json_falsy", "json_token"}
(* status 0: the request failed (timeout, connection refused) and there is *)
(* no body; a response that did arrive may have any of the bodies.         *)
Responses == {resp \in [status : Statuses, body : Bodies] :
                 resp.status = 0 => resp.body = "none"}

VARIABLES
    now,          \* Date.now()
    phase,        \* "setup" while setup() runs, "run" once the VUs run
    tokenCache,   \* tokenCache of every VM
    refreshLock,  \* refreshLock of every VM
    frame,        \* the handler blocked in http.request in every VM, if any,
                  \* and its argument
    tokensIssued, \* how many tokens the auth server has issued
    snaps,        \* the snapshots setup() holds: the account each was made for
    setupData,    \* the copy of setup()'s return value the VUs receive
    last,         \* the handler that finished in the step just taken, if one
                  \* did: its argument, what it gave its caller and how many
                  \* token requests it made
    dataArray,    \* the SharedArray loadCSVData returned: its length (a row
                  \* is named by its position, from 0), Null before the load
    aborted,      \* exec.test.abort has been called
    dataCall,     \* the latest getUniqueData call and what it gave its caller
    dataPrev,     \* the getUniqueData call before that one (the log apart)
    capacity,     \* the latest isDataSufficient call and its result
    correlationStore, \* correlationStore of the VU: the value stored under
                  \* every key (the source and the time of an entry are
                  \* written and never read)
    corrCall,     \* the latest call of the correlation manager: the keys it
                  \* concerned, what it gave its caller and what it logged
    received,     \* the HTTP response the script holds, if it has made a
                  \* request
    businessErrors,    \* the Counter business_errors: its sum
    businessErrorRate, \* the Rate business_error_rate: how many samples of
                  \* 1 and of 0 it received
    validCall,    \* the validateResponse call made on that response, if
                  \* any: its config, its result, what it logged
    errorLog,     \* errorLog of every VM
    errCall       \* the latest call of the error logger: its VM, whether
                  \* it returned or threw, the summary it produced

tokenVars == <<now, phase, tokenCache, refreshLock, frame, tokensIssued, snaps,
               setupData, last>>

dataVars == <<dataArray, aborted, dataCall, dataPrev, capacity>>

corrVars == <<correlationStore, corrCall>>

validVars == <<received, businessErrors, businessErrorRate, validCall>>

errVars == <<errorLog, errCall>>

vars == <<tokenVars, dataVars, corrVars, validVars, errVars>>

Idle == [op |-> "idle", data |-> 0]

NoCall == [ctx |-> 0, op |-> "none", res |-> "none", tok |-> NullToken,
           err |-> "none", reqs |-> 0, data |-> 0]

InitToken ==
    /\ now = StartTime
    /\ phase = "setup"
    /\ tokenCache = [c \in FleetCtx |-> EmptyCache]
    /\ refreshLock = [c \in FleetCtx |-> FALSE]
    /\ frame = [c \in FleetCtx |-> Idle]
    /\ tokensIssued = 0
    /\ snaps = <<>>
    /\ setupData = <<>>
    /\ last = NoCall

(* ------------------------ pure parts of the code ----------------------- *)

(* ToNumber of a timestamp field: null counts as 0 in arithmetic *)
Num(x) == IF x = Null THEN 0 ELSE x

(* the configuration initTokenManager stores: expirySeconds = 600 when the *)
(* caller leaves it out                                                    *)
StoredConfig(config) ==
    [config EXCEPT !.expirySeconds =
        IF config.expirySeconds = Undefined THEN DefaultExpirySeconds
        ELSE config.expirySeconds]

(* check 'token generation successful' *)
StatusOk(resp) == resp.status = 200 \/ resp.status = 201

(* check 'token in response': r.json() and the walk along tokenPath run    *)
(* inside try/catch; the value must be neither undefined nor null          *)
TokenInResponse(resp) == resp.body \in {"json_falsy", "json_token"}

(* What generateToken does with the response: "token" (cache updated and   *)
(* the token returned), "null" (failure indicator returned) or "throw"     *)
(* (res.body.substring on a null body raises a TypeError).                 *)
GenerateOutcome(resp) ==
    IF ~(StatusOk(resp) /\ TokenInResponse(resp))
    THEN IF resp.body = "none" THEN "throw" ELSE "null"
    ELSE IF resp.body = "json_falsy" THEN "null" ELSE "token"

(* the token in the response: the next one the server issues for the       *)
(* account named in the request                                            *)
IssuedToken(cache) == [user |-> cache.config.username, n |-> tokensIssued + 1]

(* mutant: expiresAt is set without the lifetime *)
UpdateCacheNoLifetime(cache, tok, t) ==
    [cache EXCEPT !.token = tok, !.generatedAt = t, !.expiresAt = t]

(* the cache update of a successful generation at time t *)
UpdateCache(cache, tok, t) ==
    [cache EXCEPT !.token = tok,
                  !.generatedAt = t,
                  !.expiresAt = t + (cache.config.expirySeconds * MsPerSecond)]

(* tokenCache after generateToken has handled the response *)
CacheAfterGenerate(cache, resp, t) ==
    IF GenerateOutcome(resp) = "token"
    THEN UpdateCache(cache, IssuedToken(cache), t)
    ELSE cache

(* mutant: the lifetime is left out of the threshold *)
RefreshThresholdAtGeneration(cache) == Num(cache.generatedAt)

(* generatedAt + expirySeconds * 1000 * 0.8 *)
RefreshThreshold(cache) ==
    Num(cache.generatedAt)
        + (cache.config.expirySeconds * MsPerSecond * RefreshTenths) \div 10

NeedsRefresh(cache, t) == t >= RefreshThreshold(cache)

(* isTokenValid() in context c *)
IsTokenValid(c) ==
    IF tokenCache[c].token = NullToken \/ tokenCache[c].expiresAt = Null
    THEN FALSE
    ELSE now < tokenCache[c].expiresAt

(* mutant: the password is not checked *)
ConfigErrorNoPassword(config) ==
    IF config.url = 0 THEN "Token URL is required"
    ELSE IF config.username = 0
         THEN "Username and password are required"
         ELSE "none"

(* the required fields of initTokenManager *)
ConfigError(config) ==
    IF config.url = 0 THEN "Token URL is required"
    ELSE IF config.username = 0 \/ config.password = 0
         THEN "Username and password are required"
         ELSE "none"

(* ------------------------------ contexts ------------------------------- *)

(* the context's script is running and is not inside a handler *)
CanCall(c) ==
    /\ frame[c].op = "idle"
    /\ IF c = SetupCtx THEN phase = "setup" ELSE phase = "run"

(* The argument of getToken in a VU: a member of its copy of the setup     *)
(* data, or 0 for none.                                                    *)
DataArgs == 0..Len(setupData)

(* mutant: the cache is restored from the setup data on every call *)
AdoptsAlways(cache, d) == d /= 0

(* getToken restores the cache from the setup data when the VM has none *)
Adopts(cache, d) == cache.config = NullConfig /\ d /= 0

(* tokenCache of context c once getToken(data) has looked at its argument *)
CacheAfterRestore(c, d) ==
    IF Adopts(tokenCache[c], d) THEN setupData[d].tokenManager
    ELSE tokenCache[c]

(* the record of the handler that has just finished *)
Finished(c, op, res, tok, err, reqs, d) ==
    last' = [ctx |-> c, op |-> op, res |-> res, tok |-> tok, err |-> err,
             reqs |-> reqs, data |-> d]

(* ------------------------------ operations ----------------------------- *)

(* initTokenManager(config) in setup(), up to the token request *)
InitTokenManager(config) ==
    /\ CanCall(SetupCtx)
    /\ IF ConfigError(config) /= "none"
       THEN /\ Finished(SetupCtx, "init", "throw", NullToken,
                        ConfigError(config), 0, 0)
            /\ UNCHANGED <<now, phase, tokenCache, refreshLock, frame,
                           tokensIssued, snaps, setupData>>
       ELSE /\ tokenCache' = [tokenCache EXCEPT
                                 ![SetupCtx].config = StoredConfig(config)]
            /\ frame' = [frame EXCEPT ![SetupCtx] = [op |-> "init", data |-> 0]]
            /\ last' = NoCall
            /\ UNCHANGED <<now, phase, refreshLock, tokensIssued, snaps,
                           setupData>>

(* getToken(data) in VU c, up to the token request if it makes one *)
GetToken(c, d) ==
    /\ CanCall(c)
    /\ LET cache == CacheAfterRestore(c, d)
       IN  /\ tokenCache' = [tokenCache EXCEPT ![c] = cache]
           /\ IF cache.config = NullConfig
              THEN /\ Finished(c, "get", "throw", NullToken,
                               "Token manager not initialized", 0, d)
                   /\ UNCHANGED <<refreshLock, frame>>
              ELSE IF NeedsRefresh(cache, now) /\ ~refreshLock[c]
              THEN /\ refreshLock' = [refreshLock EXCEPT ![c] = TRUE]
                   /\ frame' = [frame EXCEPT ![c] = [op |-> "get", data |-> d]]
                   /\ last' = NoCall
              ELSE (* the lock is held (after sleep(0.1)), or token reused *)
                   /\ Finished(c, "get", "return", cache.token, "none", 0, d)
                   /\ UNCHANGED <<refreshLock, frame>>
    /\ UNCHANGED <<now, phase, tokensIssued, snaps, setupData>>

(* forceRefreshToken() in VU c, up to the token request *)
ForceRefreshToken(c) ==
    /\ CanCall(c)
    /\ IF tokenCache[c].config = NullConfig
       THEN (* generateToken reads config.url of null *)
            /\ Finished(c, "force", "throw", NullToken, "TypeError", 0, 0)
            /\ UNCHANGED frame
       ELSE /\ frame' = [frame EXCEPT ![c] = [op |-> "force", data |-> 0]]
            /\ last' = NoCall
    /\ UNCHANGED <<now, phase, tokenCache, refreshLock, tokensIssued, snaps,
                   setupData>>

(* What the handler blocked in http.request gives its caller once          *)
(* generateToken has produced out: <<"return" or "throw", value, error>>.  *)
HandlerResult(op, out, newTok, staleTok) ==
    IF out = "throw" THEN <<"throw", NullToken, "TypeError">>
    ELSE IF op = "init"
         THEN IF out = "null"
              THEN <<"throw", NullToken, "Failed to generate initial token">>
              ELSE <<"return", newTok, "none">>
    ELSE IF op = "get"
         THEN IF out = "token" THEN <<"return", newTok, "none">>
              ELSE <<"return", staleTok, "none">>
    ELSE IF out = "token" THEN <<"return", newTok, "none">>
         ELSE <<"return", NullToken, "none">>

(* refreshLock when the handler is left: getToken clears it after          *)
(* generateToken has returned, and only then                               *)
LockAfter(op, out, lock) ==
    IF op = "get" /\ out /= "throw" THEN FALSE ELSE lock

(* The response to the token request of context c arrives: the rest of     *)
(* generateToken and of the handler that called it.  The server issues at  *)
(* most MaxTokens tokens.                                                  *)
Response(c, resp) ==
    /\ frame[c].op /= "idle"
    /\ LET out == GenerateOutcome(resp)
           r == HandlerResult(frame[c].op, out, IssuedToken(tokenCache[c]),
                              tokenCache[c].token)
       IN  /\ resp.body = "json_token" => tokensIssued < MaxTokens
           /\ tokenCache' = [tokenCache EXCEPT
                                ![c] = CacheAfterGenerate(@, resp, now)]
           /\ tokensIssued' = IF out = "token" THEN tokensIssued + 1
                              ELSE tokensIssued
           /\ refreshLock' = [refreshLock EXCEPT
                                 ![c] = LockAfter(frame[c].op, out, @)]
           /\ snaps' = IF frame[c].op = "init" /\ r[1] = "return"
                       THEN Append(snaps, tokenCache[c].config.username)
                       ELSE snaps
           /\ Finished(c, frame[c].op, r[1], r[2], r[3], 1, frame[c].data)
    /\ frame' = [frame EXCEPT ![c] = Idle]
    /\ UNCHANGED <<now, phase, setupData>>

(* setup() returns the snapshots it holds.  Every snapshot refers to the   *)
(* one tokenCache object of the setup VM; k6 serialises them as that       *)
(* object is at this moment and hands every VU a copy.                     *)
SetupReturn ==
    /\ phase = "setup"
    /\ frame[SetupCtx].op = "idle"
    /\ phase' = "run"
    /\ setupData' = [i \in 1..Len(snaps) |->
                        [tokenManager |-> tokenCache[SetupCtx]]]
    /\ last' = NoCall
    /\ UNCHANGED <<now, tokenCache, refreshLock, frame, tokensIssued, snaps>>

(* Date.now() moves on *)
Advance ==
    /\ now + TimeStep <= StartTime + MaxElapsed
    /\ now' = now + TimeStep
    /\ last' = NoCall
    /\ UNCHANGED <<phase, tokenCache, refreshLock, frame, tokensIssued,
                   snaps, setupData>>

(* ---------------------------- data manager ----------------------------- *)
(* loadCSVData runs in the init context and returns the records of the     *)
(* file as a SharedArray, which every VU reads.  getUniqueData is a        *)
(* function of its arguments alone: the array, __VU, __ITER and the        *)
(* options.  A VU's iteration number only grows, but getUniqueData may be  *)
(* called in any iteration and by any VU at any moment, so the calls of a  *)
(* run are modelled by calls with any VU id and iteration number from      *)
(* bounded sets, until the run is aborted.                                 *)

(* VU ids (__VU) start at 1; two VUs call getUniqueData *)
DataVUs == {1, 2}

(* iteration numbers (__ITER) start at 0; the first ones, the last one     *)
(* below the assumed maximum per VU and the first one beyond it are tried  *)
Iterations ==
    (0..MaxLowIteration) \cup {MaxIterationsPerVU - 1, MaxIterationsPerVU}

(* numbers of records in the CSV file: an empty file, short files and      *)
(* files that reach the rows of the second VU                              *)
DatasetLengths ==
    {0, MaxRows - 1, MaxRows, MaxIterationsPerVU, MaxIterationsPerVU + 1}

(* options of getUniqueData: abortOnExhaustion and logExhaustion, both     *)
(* true when left out                                                      *)
DataOptions == [abortOnExhaustion : BOOLEAN, logExhaustion : BOOLEAN]

(* iterations per VU of the scenario, as passed to isDataSufficient *)
PlannedIterations == {1, MaxLowIteration}

NoDataCall == [vu |-> 0, iter |-> 0, index |-> Null, res |-> "none",
               row |-> Null, logged |-> FALSE]

NoCheck == [totalVUs |-> 0, iterations |-> 0, res |-> "none"]

InitData ==
    /\ dataArray = Null
    /\ aborted = FALSE
    /\ dataCall = NoDataCall
    /\ dataPrev = NoDataCall
    /\ capacity = NoCheck

(* !dataArray || dataArray.length === 0 *)
IsEmptyArray(arr) == arr = Null \/ arr = 0

(* mutant: the index without the per-VU stride *)
UniqueIndexNoStride(vuId, iteration) == (vuId - 1) + iteration

(* index = (vuId - 1) * 1000 + iteration *)
UniqueIndex(vuId, iteration) == (vuId - 1) * MaxIterationsPerVU + iteration

(* mutant: the last row is taken for exhausted too *)
IsExhaustedAtLast(arr, index) == index >= arr - 1

(* index >= dataArray.length *)
IsExhausted(arr, index) == index >= arr

(* what getUniqueData gives its caller once it has found the data          *)
(* exhausted: exec.test.abort ends the run (and the call with it), else    *)
(* null is returned                                                        *)
ExhaustedResult(vuId, iteration, index, opts) ==
    [vu |-> vuId, iter |-> iteration, index |-> index,
     res |-> IF opts.abortOnExhaustion THEN "abort" ELSE "null",
     row |-> Null, logged |-> opts.logExhaustion]

(* getUniqueData(dataArray, vuId, iteration, options) *)
UniqueData(arr, vuId, iteration, opts) ==
    IF IsEmptyArray(arr)
    THEN ExhaustedResult(vuId, iteration, Null, opts)
    ELSE IF IsExhausted(arr, UniqueIndex(vuId, iteration))
    THEN ExhaustedResult(vuId, iteration, UniqueIndex(vuId, iteration), opts)
    ELSE [vu |-> vuId, iter |-> iteration,
          index |-> UniqueIndex(vuId, iteration), res |-> "row",
          row |-> UniqueIndex(vuId, iteration), logged |-> FALSE]

(* isDataSufficient: available >= totalVUs * iterations *)
DataSufficient(arr, totalVUs, iterations) == arr >= totalVUs * iterations

(* const users = loadCSVData(name, filePath): a file of n records *)
LoadCSVData(n) ==
    /\ dataArray = Null
    /\ dataArray' = n
    /\ UNCHANGED <<aborted, dataCall, dataPrev, capacity>>

(* getUniqueData(dataArray, vuId, iteration, options) in a VU *)
GetUniqueData(vuId, iteration, opts) ==
    /\ ~aborted
    /\ dataCall' = UniqueData(dataArray, vuId, iteration, opts)
    /\ dataPrev' = [dataCall EXCEPT !.logged = FALSE]
    /\ aborted' = (dataCall'.res = "abort")
    /\ UNCHANGED <<dataArray, capacity>>

(* isDataSufficient(dataArray, totalVUs, iterations) *)
IsDataSufficient(totalVUs, iterations) ==
    /\ ~aborted
    /\ dataArray /= Null
    /\ capacity' = [totalVUs |-> totalVUs, iterations |-> iterations,
                    res |-> IF DataSufficient(dataArray, totalVUs, iterations)
                            THEN "sufficient" ELSE "insufficient"]
    /\ UNCHANGED <<dataArray, aborted, dataCall, dataPrev>>

NextDataOps ==
    \/ \E n \in DatasetLengths : LoadCSVData(n)
    \/ \E vuId \in DataVUs, iteration \in Iterations, opts \in DataOptions :
          GetUniqueData(vuId, iteration, opts)
    \/ \E totalVUs \in DataVUs, iterations \in PlannedIterations :
          IsDataSufficient(totalVUs, iterations)

(* ------------------------- correlation manager ------------------------- *)
(* correlationStore is a module-level object of the VM of a VU.  A JSON    *)
(* value is a tagged record: null, undefined, a number, an array of values *)
(* or an object that maps member names to values.                          *)
JNull == [t |-> "null"]
JUndefined == [t |-> "undefined"]
JNum(n) == [t |-> "num", n |-> n]
JArr(items) == [t |-> "arr", items |-> items]
JObj(members) == [t |-> "obj", members |-> members]

(* value === null || value === undefined *)
IsNullish(value) == value = JNull \/ value = JUndefined

(* decoded response bodies: {"a":{"b":[{"c":42}]}}, the same with a null   *)
(* leaf, with b null and with b missing                                    *)
DocFull == JObj("a" :> JObj("b" :> JArr(<<JObj("c" :> JNum(42))>>)))
DocNullLeaf == JObj("a" :> JObj("b" :> JArr(<<JObj("c" :> JNull)>>)))
DocNullMember == JObj("a" :> JObj("b" :> JNull))
DocMissingMember == JObj("a" :> JObj("x" :> JNum(1)))
Docs == {DocFull, DocNullLeaf, DocNullMember, DocMissingMember}

(* The response handed to extractAndStore: no response object at all, a    *)
(* response without a body (response.body is null), one whose body is not  *)
(* JSON, or one whose body decodes to a document.                          *)
NoResponse == [body |-> "absent"]
CorrResponses ==
    {NoResponse, [body |-> "none"], [body |-> "text"]}
        \cup {[body |-> "json", json |-> doc] : doc \in Docs}

(* A path after path.split('.'): every part is a member name, with the     *)
(* index of the name[index] notation or Null without one.                  *)
Part(name, index) == [name |-> name, index |-> index]
PathABC == <<Part("a", Null), Part("b", 0), Part("c", Null)>>
PathOutOfBounds == <<Part("a", Null), Part("b", MaxIndex), Part("c", Null)>>
Paths == {PathABC, PathOutOfBounds}

(* value[name] of a value that is neither null nor undefined *)
Member(value, name) ==
    IF value.t = "obj" /\ name \in DOMAIN value.members
    THEN value.members[name]
    ELSE JUndefined

(* mutant: an index beyond the array is taken for its last element *)
RECURSIVE ResolveClamped(_, _, _)
ResolveClamped(value, parts, defaultValue) ==
    IF parts = <<>>
    THEN IF value /= JUndefined THEN value ELSE defaultValue
    ELSE IF IsNullish(value) THEN defaultValue
    ELSE IF Head(parts).index /= Null
    THEN LET arr == Member(value, Head(parts).name)
         IN  IF arr.t = "arr" /\ Len(arr.items) > 0
             THEN ResolveClamped(
                      arr.items[IF Head(parts).index < Len(arr.items)
                                THEN Head(parts).index + 1
                                ELSE Len(arr.items)],
                      Tail(parts), defaultValue)
             ELSE defaultValue
    ELSE ResolveClamped(Member(value, Head(parts).name), Tail(parts),
                        defaultValue)

(* extractJsonValue: the loop over the parts of the path and the final     *)
(* 'value !== undefined ? value : defaultValue'                            *)
RECURSIVE Resolve(_, _, _)
Resolve(value, parts, defaultValue) ==
    IF parts = <<>>
    THEN IF value /= JUndefined THEN value ELSE defaultValue
    ELSE IF IsNullish(value) THEN defaultValue
    ELSE IF Head(parts).index /= Null
    THEN LET arr == Member(value, Head(parts).name)
         IN  IF arr.t = "arr" /\ Head(parts).index < Len(arr.items)
             THEN Resolve(arr.items[Head(parts).index + 1], Tail(parts),
                          defaultValue)
             ELSE defaultValue
    ELSE Resolve(Member(value, Head(parts).name), Tail(parts), defaultValue)

(* response.json() raises when there is no body or the body is not JSON *)
JsonThrows(response) == response.body \in {"none", "text"}

(* extractJsonValue(response, path, defaultValue) *)
ExtractJsonValue(response, parts, defaultValue) ==
    IF response = NoResponse THEN defaultValue
    ELSE IF JsonThrows(response) THEN defaultValue
    ELSE Resolve(response.json, parts, defaultValue)

(* correlation keys, and the values storeCorrelation is called with *)
CorrKeys == {"id", "sub"}
ManualValues == {JUndefined, JNum(7), JNum(9)}

(* no entry under a key of correlationStore *)
Absent == [t |-> "absent"]

(* options of extractAndStore: required and logExtraction are true and     *)
(* defaultValue is null when left out                                      *)
ExtractOptions ==
    [required : BOOLEAN, defaultValue : {JNull, JNum(7)},
     logExtraction : BOOLEAN]

(* options of validateCorrelations: abortOnMissing is false and logMissing *)
(* is true when left out                                                   *)
ValidateOptions == [abortOnMissing : BOOLEAN, logMissing : BOOLEAN]

(* A URL is a sequence of pieces: literal text, or a {placeholder}.  Text  *)
(* never holds a brace.                                                    *)
Lit(text) == [lit |-> text]
Ph(name) == [ph |-> name]
IsPh(piece) == "ph" \in DOMAIN piece
UrlIdSub == <<Lit("/x/"), Ph("id"), Lit("/y/"), Ph("sub")>>
UrlIdId == <<Lit("/x/"), Ph("id"), Lit("/y/"), Ph("id")>>
UrlPlain == <<Lit("/x")>>
Templates == {UrlIdSub, UrlIdId, UrlPlain}

(* correlationMapping: null, or the entries {placeholder: correlationKey}  *)
(* of the object in the order of Object.entries                            *)
NoMapping == <<>>
Entry(placeholder, key) == [placeholder |-> placeholder, key |-> key]
Mappings == {NoMapping, <<Entry("id", "sub")>>,
             <<Entry("id", "id"), Entry("sub", "sub")>>}

(* the text of a URL *)
RECURSIVE Render(_)
Render(url) ==
    IF url = <<>> THEN ""
    ELSE (IF IsPh(Head(url)) THEN "{" \o Head(url).ph \o "}"
          ELSE Head(url).lit) \o Render(Tail(url))

(* the result of a URL build: the URL, or JNull *)
JUrl(url) == [t |-> "url", pieces |-> url]
JBool(b) == [t |-> "bool", b |-> b]

(* the arguments of a call that is not an extraction; the options are the  *)
(* defaults of extractAndStore                                             *)
NoArgs ==
    [response |-> NoResponse, path |-> <<>>,
     opts |-> [required |-> TRUE, defaultValue |-> JNull,
               logExtraction |-> TRUE]]

NoCorrCall == [op |-> "none", keys |-> {}, args |-> NoArgs, res |-> "none",
               value |-> JUndefined, log |-> {}]

InitCorr ==
    /\ correlationStore = [key \in CorrKeys |-> Absent]
    /\ corrCall = NoCorrCall

(* getCorrelatedValue(correlationKey, defaultValue) on a store *)
GetCorrelatedValue(store, key, defaultValue) ==
    IF store[key] = Absent THEN defaultValue ELSE store[key]

(* mutant: an entry is enough, whatever its value *)
HasCorrelationAnyValue(store, key) == store[key] /= Absent

(* hasCorrelation(correlationKey) on a store *)
HasCorrelation(store, key) ==
    store[key] /= Absent /\ store[key] /= JNull /\ store[key] /= JUndefined

(* The failure branch of extractAndStore with required set reads          *)
(* response.status and response.body.substring: a TypeError when there is  *)
(* no response object or no body.                                          *)
FailureLogThrows(response) == response = NoResponse \/ response.body = "none"

(* What extractAndStore logs: the error of extractJsonValue's catch block, *)
(* the extraction failure (an error when required, else a warning when     *)
(* logExtraction) and the stored value (when logExtraction).               *)
ExtractLog(response, value, opts, stored) ==
    (IF response /= NoResponse /\ JsonThrows(response)
     THEN {"extract_error"} ELSE {})
    \cup (IF IsNullish(value) /\ opts.required THEN {"failed"} ELSE {})
    \cup (IF IsNullish(value) /\ ~opts.required /\ opts.logExtraction
          THEN {"failed_optional"} ELSE {})
    \cup (IF stored /\ opts.logExtraction THEN {"stored"} ELSE {})

(* extractAndStore(response, jsonPath, correlationKey, options); the call  *)
(* record names the key and the arguments                                  *)
ExtractAndStore(response, parts, key, opts) ==
    /\ ~aborted
    /\ LET value == ExtractJsonValue(response, parts, opts.defaultValue)
           failed == IsNullish(value) /\ opts.required
       IN  /\ correlationStore' =
                  IF failed THEN correlationStore
                  ELSE [correlationStore EXCEPT ![key] = value]
           /\ corrCall' =
                  [op |-> "extract", keys |-> {key},
                   args |-> [response |-> response, path |-> parts,
                             opts |-> opts],
                   res |-> IF failed /\ FailureLogThrows(response)
                           THEN "throw" ELSE "return",
                   value |-> IF failed THEN JNull ELSE value,
                   log |-> ExtractLog(response, value, opts, ~failed)]
    /\ UNCHANGED aborted

(* storeCorrelation(key, value) *)
StoreCorrelation(key, value) ==
    /\ ~aborted
    /\ correlationStore' = [correlationStore EXCEPT ![key] = value]
    /\ corrCall' = [op |-> "store", keys |-> {key}, args |-> NoArgs,
                    res |-> "return", value |-> JUndefined, log |-> {}]
    /\ UNCHANGED aborted

(* mutant: the entry of one key outlives the clear *)
ClearCorrelationsKeepsSub ==
    /\ ~aborted
    /\ correlationStore' = [correlationStore EXCEPT !["id"] = Absent]
    /\ corrCall' = [op |-> "clear",
                    keys |-> {key \in CorrKeys : correlationStore[key] /= Absent},
                    args |-> NoArgs,
                    res |-> "return", value |-> JUndefined, log |-> {}]
    /\ UNCHANGED aborted

(* clearCorrelations(); the call record names the keys it discarded *)
ClearCorrelations ==
    /\ ~aborted
    /\ correlationStore' = [key \in CorrKeys |-> Absent]
    /\ corrCall' = [op |-> "clear",
                    keys |-> {key \in CorrKeys : correlationStore[key] /= Absent},
                    args |-> NoArgs,
                    res |-> "return", value |-> JUndefined, log |-> {}]
    /\ UNCHANGED aborted

(* clearCorrelation(key) *)
ClearCorrelation(key) ==
    /\ ~aborted
    /\ correlationStore' = [correlationStore EXCEPT ![key] = Absent]
    /\ corrCall' = [op |-> "clearOne", keys |-> {key}, args |-> NoArgs,
                    res |-> "return", value |-> JUndefined, log |-> {}]
    /\ UNCHANGED aborted

(* the keys validateCorrelations finds missing *)
Missing(store, requiredKeys) ==
    {key \in requiredKeys : ~HasCorrelation(store, key)}

(* validateCorrelations(requiredKeys, options); the call record names the  *)
(* missing keys                                                            *)
ValidateCorrelations(requiredKeys, opts) ==
    /\ ~aborted
    /\ LET missing == Missing(correlationStore, requiredKeys)
       IN  /\ corrCall' =
                  [op |-> "validate", keys |-> missing, args |-> NoArgs,
                   res |-> IF missing /= {} /\ opts.abortOnMissing
                           THEN "abort" ELSE "return",
                   value |-> IF missing /= {} /\ opts.abortOnMissing
                             THEN JUndefined ELSE JBool(missing = {}),
                   log |-> IF missing /= {} /\ opts.logMissing
                           THEN {"missing"} ELSE {}]
           /\ aborted' = (missing /= {} /\ opts.abortOnMissing)
    /\ UNCHANGED correlationStore

(* the names of the {placeholders} of a template, in order *)
Placeholders(url) ==
    LET phs == SelectSeq(url, IsPh)
    IN  [i \in 1..Len(phs) |-> phs[i].ph]

(* the mapping derived from the placeholders: an object, so a name that    *)
(* occurs again adds no entry                                              *)
RECURSIVE AutoMapping(_, _)
AutoMapping(names, seen) ==
    IF names = <<>> THEN <<>>
    ELSE IF Head(names) \in seen THEN AutoMapping(Tail(names), seen)
    ELSE <<Entry(Head(names), Head(names))>>
             \o AutoMapping(Tail(names), seen \cup {Head(names)})

(* url.replace(`{${placeholder}}`, value): the first occurrence is         *)
(* replaced by the text of the value                                       *)
RECURSIVE Replace(_, _, _)
Replace(url, placeholder, value) ==
    IF url = <<>> THEN <<>>
    ELSE IF Head(url) = Ph(placeholder)
    THEN <<Lit(ToString(value.n))>> \o Tail(url)
    ELSE <<Head(url)>> \o Replace(Tail(url), placeholder, value)

(* mutant: a missing correlation leaves its placeholder in place *)
RECURSIVE SubstituteSkipMissing(_, _, _)
SubstituteSkipMissing(url, entries, store) ==
    IF entries = <<>> THEN JUrl(url)
    ELSE IF IsNullish(GetCorrelatedValue(store, Head(entries).key, JNull))
    THEN SubstituteSkipMissing(url, Tail(entries), store)
    ELSE SubstituteSkipMissing(
             Replace(url, Head(entries).placeholder,
                     GetCorrelatedValue(store, Head(entries).key, JNull)),
             Tail(entries), store)

(* the loop of buildCorrelatedUrl over the entries of the mapping: the URL *)
(* built, or JNull at the first missing correlation                        *)
RECURSIVE Substitute(_, _, _)
Substitute(url, entries, store) ==
    IF entries = <<>> THEN JUrl(url)
    ELSE IF IsNullish(GetCorrelatedValue(store, Head(entries).key, JNull))
    THEN JNull
    ELSE Substitute(
             Replace(url, Head(entries).placeholder,
                     GetCorrelatedValue(store, Head(entries).key, JNull)),
             Tail(entries), store)

(* the mapping buildCorrelatedUrl works with *)
EffectiveMapping(urlTemplate, mapping) ==
    IF mapping = NoMapping THEN AutoMapping(Placeholders(urlTemplate), {})
    ELSE mapping

(* buildCorrelatedUrl(urlTemplate, correlationMapping); the call record    *)
(* names the placeholders of the mapping                                   *)
BuildCorrelatedUrl(urlTemplate, mapping) ==
    /\ ~aborted
    /\ LET entries == EffectiveMapping(urlTemplate, mapping)
           built == Substitute(urlTemplate, entries, correlationStore)
       IN  corrCall' =
               [op |-> "build",
                keys |-> {entries[i].placeholder : i \in 1..Len(entries)},
                args |-> NoArgs,
                res |-> "return", value |-> built,
                log |-> IF built = JNull THEN {"missing"} ELSE {}]
    /\ UNCHANGED <<correlationStore, aborted>>

NextCorrOps ==
    \/ \E response \in CorrResponses, parts \in Paths, key \in CorrKeys,
          opts \in ExtractOptions :
          ExtractAndStore(response, parts, key, opts)
    \/ \E key \in CorrKeys, value \in ManualValues :
          StoreCorrelation(key, value)
    \/ ClearCorrelations
    \/ \E key \in CorrKeys : ClearCorrelation(key)
    \/ \E requiredKeys \in SUBSET CorrKeys, opts \in ValidateOptions :
          ValidateCorrelations(requiredKeys, opts)
    \/ \E urlTemplate \in Templates, mapping \in Mappings :
          BuildCorrelatedUrl(urlTemplate, mapping)

(* ------------------------------ validators ----------------------------- *)
(* validateResponse(response, config) builds named predicates from config, *)
(* hands them to k6's check(), which is true when every predicate is, and  *)
(* feeds two custom metrics.  The body of a response is null, or a text    *)
(* of which the model keeps whether it is JSON, the type of its member id  *)
(* and which of the texts searched for it includes.                        *)
BodyNone == [kind |-> "none", idType |-> "undefined", includes |-> {}]
BodyUser == [kind |-> "json", idType |-> "string", includes |-> {"u1"}]
BodyNumericId == [kind |-> "json", idType |-> "number", includes |-> {}]
ValidBodies == {BodyNone, BodyUser, BodyNumericId}

ValidStatuses ==
    {SuccessFrom - 1, SuccessFrom, 201, SuccessBelow - 1, SuccessBelow, 500}
Durations == {ResponseTimeCeiling - 1, ResponseTimeCeiling}
ValidResponses == [status : ValidStatuses, duration : Durations, body : ValidBodies]

(* no request made yet *)
NothingReceived == [status |-> 0, duration |-> 0, body |-> BodyNone]

(* config: a missing apiName is "", a missing expectedStatuses, jsonSchema *)
(* or customChecks is <<>>, a missing bodyContains or bodyNotContains is   *)
(* ""; a custom check is the value its function returns.                   *)
NoApiName == ""
StatusConfigs ==
    { [expectedStatus |-> DefaultExpectedStatus, expectedStatuses |-> <<>>],
      [expectedStatus |-> 201, expectedStatuses |-> <<>>],
      [expectedStatus |-> DefaultExpectedStatus, expectedStatuses |-> <<200, 201>>] }
SchemaIdString == <<[field |-> "id", expectedType |-> "string"]>>
BodyConfigs ==
    { [checkBody |-> FALSE, bodyContains |-> "", bodyNotContains |-> "",
       jsonSchema |-> <<>>, customChecks |-> <<>>],
      [checkBody |-> FALSE, bodyContains |-> "", bodyNotContains |-> "",
       jsonSchema |-> SchemaIdString, customChecks |-> <<>>],
      [checkBody |-> TRUE, bodyContains |-> "u1", bodyNotContains |-> "error",
       jsonSchema |-> <<>>, customChecks |-> <<TRUE>>],
      [checkBody |-> FALSE, bodyContains |-> "", bodyNotContains |-> "",
       jsonSchema |-> <<>>, customChecks |-> <<FALSE>>] }
ValidConfigs ==
    { [apiName |-> apiName,
       expectedStatus |-> st.expectedStatus,
       expectedStatuses |-> st.expectedStatuses,
       checkBody |-> bc.checkBody, bodyContains |-> bc.bodyContains,
       bodyNotContains |-> bc.bodyNotContains, jsonSchema |-> bc.jsonSchema,
       customChecks |-> bc.customChecks] :
      apiName \in {NoApiName, "Create_User"}, st \in StatusConfigs,
      bc \in BodyConfigs }

NoValidCall == [op |-> "none", config |-> {}, result |-> FALSE, log |-> {}]

InitValid ==
    /\ received = NothingReceived
    /\ businessErrors = 0
    /\ businessErrorRate = [ones |-> 0, zeros |-> 0]
    /\ validCall = NoValidCall

(* the status predicate: expectedStatuses.includes(r.status), or           *)
(* r.status === expectedStatus                                             *)
StatusCheck(r, config) ==
    IF config.expectedStatuses /= <<>>
    THEN \E i \in 1..Len(config.expectedStatuses) :
             config.expectedStatuses[i] = r.status
    ELSE r.status = config.expectedStatus

(* r.timings.duration < 5000 *)
ResponseTimeCheck(r) == r.duration < ResponseTimeCeiling

(* r.body && r.body.length > 0 *)
HasBodyCheck(r) == r.body.kind /= "none"

(* r.body && r.body.includes(text) *)
BodyContainsCheck(r, text) == r.body.kind /= "none" /\ text \in r.body.includes

(* !r.body || !r.body.includes(text) *)
BodyNotContainsCheck(r, text) ==
    r.body.kind = "none" \/ text \notin r.body.includes

(* r.json() returns *)
ValidJsonCheck(r) == r.body.kind = "json"

(* field in json, and typeof json[field] === expectedType; the documents   *)
(* of the model hold the member id and nothing else                        *)
HasFieldCheck(r, entry) == r.body.kind = "json" /\ entry.field = "id"
FieldTypeCheck(r, entry) ==
    r.body.kind = "json"
    /\ entry.expectedType = (IF entry.field = "id" THEN r.body.idType
                             ELSE "undefined")

(* the results of the predicates that validateResponse builds from the     *)
(* members of config                                                       *)
ConfiguredChecks(r, config) ==
    {StatusCheck(r, config)}
    \cup (IF config.checkBody \/ config.bodyContains /= ""
             \/ config.jsonSchema /= <<>>
          THEN {HasBodyCheck(r)} ELSE {})
    \cup (IF config.bodyContains /= ""
          THEN {BodyContainsCheck(r, config.bodyContains)} ELSE {})
    \cup (IF config.bodyNotContains /= ""
          THEN {BodyNotContainsCheck(r, config.bodyNotContains)} ELSE {})
    \cup (IF config.jsonSchema /= <<>> THEN {ValidJsonCheck(r)} ELSE {})
    \cup {HasFieldCheck(r, config.jsonSchema[i]) : i \in 1..Len(config.jsonSchema)}
    \cup {FieldTypeCheck(r, config.jsonSchema[i]) : i \in 1..Len(config.jsonSchema)}
    \cup {config.customChecks[i] : i \in 1..Len(config.customChecks)}

(* the results of all predicates handed to check(): the response-time     *)
(* predicate is among them                                                 *)
Checks(r, config) == ConfiguredChecks(r, config) \cup {ResponseTimeCheck(r)}

(* check(response, checks, tags) *)
Check(r, config) == FALSE \notin Checks(r, config)

(* response.status < 200 || response.status >= 300 *)
IsBusinessError(r) == r.status < SuccessFrom \/ r.status >= SuccessBelow

(* how many samples the metrics have received *)
Samples == businessErrorRate.ones + businessErrorRate.zeros

(* the script receives the response of a request *)
ReceiveResponse(r) ==
    /\ received' = r
    /\ validCall' = NoValidCall
    /\ UNCHANGED <<businessErrors, businessErrorRate>>

(* validateResponse(response, config) *)
ValidateResponse(config) ==
    /\ received /= NothingReceived
    /\ IF config.apiName = NoApiName
       THEN /\ validCall' = [op |-> "validate", config |-> {config},
                             result |-> FALSE, log |-> {"api_name_required"}]
            /\ UNCHANGED <<businessErrors, businessErrorRate>>
       ELSE /\ Samples < MaxValidations
            /\ validCall' = [op |-> "validate", config |-> {config},
                             result |-> Check(received, config), log |-> {}]
            /\ businessErrors' =
                   IF IsBusinessError(received) THEN businessErrors + 1
                   ELSE businessErrors
            /\ businessErrorRate' =
                   IF IsBusinessError(received)
                   THEN [businessErrorRate EXCEPT !.ones = @ + 1]
                   ELSE [businessErrorRate EXCEPT !.zeros = @ + 1]
    /\ UNCHANGED received

NextValidOps ==
    \/ \E r \in ValidResponses : ReceiveResponse(r)
    \/ \E config \in ValidConfigs : ValidateResponse(config)

(* ----------------------------- error logger ---------------------------- *)
(* errorLog is a module-level array, so every VM has one of its own: VM 0  *)
(* is the one k6 runs handleSummary in, after the VUs have finished.  A    *)
(* text is kept as its length; 'N/A' stands where a record has no value.   *)
SummaryVM == 0
ErrVUs == {1}
ErrVMs == {SummaryVM} \cup ErrVUs
ErrApis == {"Create_User", "Get_User"}

NA == [na |-> TRUE, len |-> 0]
Text(len) == [na |-> FALSE, len |-> len]

(* the response handed to the logger: none, one without a body, one with a *)
(* body longer than the excerpt                                            *)
NoErrResponse == [status |-> "none", body |-> Null]
NoBodyError == [status |-> "500", body |-> Null]
ServerError == [status |-> "500", body |-> LongBody]
ErrResponses == {NoErrResponse, NoBodyError, ServerError}

(* inputData: null or an object; additionalContext: '' or a text *)
InputData == {"null", "object"}
Contexts == {"", "context"}

(* what a failed evaluation leaves in place of a value *)
Thrown == "TypeError"

(* mutant: the status is read without looking whether there is a response *)
StatusCodeUnguarded(resp) ==
    IF resp = NoErrResponse THEN Thrown ELSE resp.status

(* response ? response.status : 'N/A' *)
StatusCode(resp) == IF resp = NoErrResponse THEN "N/A" ELSE resp.status

(* response.status of logValidationFailure *)
ValidationStatus(resp) == IF resp = NoErrResponse THEN Thrown ELSE resp.status

(* response && response.body ? response.body.substring(0, 200) : 'N/A' *)
ResponseBody(resp) ==
    IF resp = NoErrResponse \/ resp.body = Null THEN NA
    ELSE Text(IF resp.body < BodyExcerpt THEN resp.body ELSE BodyExcerpt)

(* inputData ? JSON.stringify(inputData) : 'N/A' *)
InputText(inputData) == IF inputData = "null" THEN "N/A" ELSE "json"

(* the record of logError *)
ErrorEntry(vu, apiName, resp, inputData, additionalContext) ==
    [errorType |-> "undefined", apiName |-> apiName,
     statusCode |-> StatusCode(resp), responseBody |-> ResponseBody(resp),
     inputData |-> InputText(inputData),
     additionalContext |-> additionalContext, vu |-> vu]

(* the record of logCorrelationFailure *)
CorrelationEntry(vu, apiName, inputData) ==
    [errorType |-> "CORRELATION_FAILURE", apiName |-> apiName,
     statusCode |-> "undefined", responseBody |-> NA,
     inputData |-> InputText(inputData), additionalContext |-> "", vu |-> vu]

(* the record of logValidationFailure *)
ValidationEntry(vu, apiName, resp) ==
    [errorType |-> "VALIDATION_FAILURE", apiName |-> apiName,
     statusCode |-> ValidationStatus(resp), responseBody |-> ResponseBody(resp),
     inputData |-> "undefined", additionalContext |-> "", vu |-> vu]

NoSummary == [none |-> FALSE, total |-> 0, groups |-> <<>>]
NoErrCall == [op |-> "none", vm |-> SummaryVM, res |-> "none",
              summary |-> NoSummary]

InitErr ==
    /\ errorLog = [vm \in ErrVMs |-> <<>>]
    /\ errCall = NoErrCall

(* mutant: the record goes to the front of the log *)
PushFront(log, entry) == <<entry>> \o log

(* errorLog.push(errorEntry) *)
Push(log, entry) == Append(log, entry)

(* A logging call: the record is pushed unless building it threw. *)
LogEntry(vu, op, entry) ==
    /\ errorLog' = IF entry.statusCode = Thrown THEN errorLog
                   ELSE [errorLog EXCEPT ![vu] = Push(@, entry)]
    /\ errCall' = [op |-> op, vm |-> vu,
                   res |-> IF entry.statusCode = Thrown THEN "throw"
                           ELSE "return",
                   summary |-> NoSummary]

(* logError(apiName, response, inputData, additionalContext) *)
LogError(vu, apiName, resp, inputData, additionalContext) ==
    LogEntry(vu, "logError",
             ErrorEntry(vu, apiName, resp, inputData, additionalContext))

(* logCorrelationFailure(apiName, missingCorrelations, inputData) *)
LogCorrelationFailure(vu, apiName, inputData) ==
    LogEntry(vu, "logCorrelationFailure",
             CorrelationEntry(vu, apiName, inputData))

(* logValidationFailure(apiName, validationMessage, response) *)
LogValidationFailure(vu, apiName, resp) ==
    LogEntry(vu, "logValidationFailure", ValidationEntry(vu, apiName, resp))

(* getErrorCount() *)
GetErrorCount(vm) ==
    /\ errCall' = [op |-> "getErrorCount", vm |-> vm, res |-> "return",
                   summary |-> NoSummary]
    /\ UNCHANGED errorLog

(* clearErrorLog() *)
ClearErrorLog(vm) ==
    /\ errorLog' = [errorLog EXCEPT ![vm] = <<>>]
    /\ errCall' = [op |-> "clearErrorLog", vm |-> vm, res |-> "return",
                   summary |-> NoSummary]

(* the keys of byApi in the order Object.entries lists them: the API names *)
(* in the order of their first record                                      *)
RECURSIVE ApiNames(_, _)
ApiNames(log, seen) ==
    IF log = <<>> THEN <<>>
    ELSE IF Head(log).apiName \in seen THEN ApiNames(Tail(log), seen)
    ELSE <<Head(log).apiName>>
             \o ApiNames(Tail(log), seen \cup {Head(log).apiName})

(* byApi[apiName] *)
ErrorsOf(log, apiName) ==
    LET ofApi(entry) == entry.apiName = apiName IN SelectSeq(log, ofApi)

(* mutant: the latest records are listed *)
ShownLatest(errors) ==
    IF Len(errors) > ShownLimit
    THEN SubSeq(errors, Len(errors) - ShownLimit + 1, Len(errors))
    ELSE errors

(* errors.slice(0, 3) *)
Shown(errors) ==
    IF Len(errors) > ShownLimit THEN SubSeq(errors, 1, ShownLimit) ELSE errors

(* what the summary says of one API: its count, the records it lists and   *)
(* how many more it mentions (0: no such line)                             *)
GroupOf(log, apiName) ==
    LET errors == ErrorsOf(log, apiName)
    IN  [apiName |-> apiName, count |-> Len(errors), shown |-> Shown(errors),
         omitted |-> IF Len(errors) > ShownLimit
                     THEN Len(errors) - ShownLimit ELSE 0]

(* the text formatErrorSummary returns: 'No errors logged', or the total   *)
(* and a group for every key of byApi                                      *)
ErrorSummary(log) ==
    IF Len(log) = 0 THEN [none |-> TRUE, total |-> 0, groups |-> <<>>]
    ELSE [none |-> FALSE, total |-> Len(log),
          groups |-> [i \in 1..Len(ApiNames(log, {})) |->
                          GroupOf(log, ApiNames(log, {})[i])]]

(* formatErrorSummary() *)
FormatErrorSummary(vm) ==
    /\ errCall' = [op |-> "formatErrorSummary", vm |-> vm, res |-> "return",
                   summary |-> ErrorSummary(errorLog[vm])]
    /\ UNCHANGED errorLog

(* handleSummary(data) of the test script, at the end of the run *)
HandleSummary ==
    /\ errCall' = [op |-> "handleSummary", vm |-> SummaryVM, res |-> "return",
                   summary |-> ErrorSummary(errorLog[SummaryVM])]
    /\ UNCHANGED errorLog

(* The calls of the error logger, for the given arguments; no VM logs more *)
(* than cap records, and nothing runs once handleSummary has.              *)
NextErrOps(apis, resps, inputs, contexts, cap) ==
    /\ errCall.op /= "handleSummary"
    /\ \/ \E vu \in ErrVUs, apiName \in apis, resp \in resps,
             inputData \in inputs, additionalContext \in contexts :
             /\ Len(errorLog[vu]) < cap
             /\ LogError(vu, apiName, resp, inputData, additionalContext)
       \/ \E vu \in ErrVUs, apiName \in apis, inputData \in inputs :
             /\ Len(errorLog[vu]) < cap
             /\ LogCorrelationFailure(vu, apiName, inputData)
       \/ \E vu \in ErrVUs, apiName \in apis, resp \in resps \cup {NoErrResponse} :
             /\ Len(errorLog[vu]) < cap
             /\ LogValidationFailure(vu, apiName, resp)
       \/ \E vm \in ErrVUs : GetErrorCount(vm)
       \/ \E vm \in ErrVUs : ClearErrorLog(vm)
       \/ \E vm \in ErrVUs : FormatErrorSummary(vm)
       \/ HandleSummary

(* ---------------------------- specifications --------------------------- *)

Init == InitToken /\ InitData /\ InitCorr /\ InitValid /\ InitErr

NextOf(vus) ==
    \/ \E config \in Configs : InitTokenManager(config)
    \/ \E c \in vus : \E d \in DataArgs : GetToken(c, d)
    \/ \E c \in vus : ForceRefreshToken(c)
    \/ \E c \in {SetupCtx} \cup vus, resp \in Responses : Response(c, resp)
    \/ SetupReturn
    \/ Advance

Next == NextOf(VUs) /\ UNCHANGED <<dataVars, corrVars, validVars, errVars>>

Spec == Init /\ [][Next]_vars

(* the same library with two VUs running concurrently *)
NextFleet == NextOf(FleetVUs) /\ UNCHANGED <<dataVars, corrVars, validVars, errVars>>

SpecFleet == Init /\ [][NextFleet]_vars

(* the data manager *)
NextData == NextDataOps /\ UNCHANGED <<tokenVars, corrVars, validVars, errVars>>

SpecData == Init /\ [][NextData]_vars

(* the correlation manager; exec.test.abort is the one of the data manager *)
NextCorr ==
    /\ NextCorrOps
    /\ UNCHANGED <<tokenVars, dataArray, dataCall, dataPrev, capacity, validVars,
                   errVars>>

SpecCorr == Init /\ [][NextCorr]_vars

(* the validators *)
NextValid == NextValidOps /\ UNCHANGED <<tokenVars, dataVars, corrVars, errVars>>

SpecValid == Init /\ [][NextValid]_vars

(* the error logger, its calls taking every combination of arguments *)
NextErr ==
    /\ NextErrOps({"Create_User"}, ErrResponses, InputData, Contexts, MaxLogged)
    /\ UNCHANGED <<tokenVars, dataVars, corrVars, validVars>>

SpecErr == Init /\ [][NextErr]_vars

(* the error logger over a longer run with two APIs and fewer arguments *)
NextSummary ==
    /\ NextErrOps(ErrApis, {ServerError}, {"object"}, {""}, MaxErrors)
    /\ UNCHANGED <<tokenVars, dataVars, corrVars, validVars>>

SpecSummary == Init /\ [][NextSummary]_vars

(* ------------------------------- claims -------------------------------- *)

(* C1 as claimed: initTokenManager followed immediately by                 *)
(* getToken(snapshot), with no time elapsed since the generation, returns  *)
(* the token of that generation and issues no token request, for every     *)
(* configuration initTokenManager accepts.                                 *)
C1_NoRefreshAtTimeZero ==
    [][\A c \in VUs : \A d \in DataArgs :
          (/\ GetToken(c, d)
           /\ d /= 0
           /\ tokenCache[c] = EmptyCache
           /\ setupData[d].tokenManager.generatedAt = now)
          => /\ last' = [ctx |-> c, op |-> "get", res |-> "return",
                         tok |-> setupData[d].tokenManager.token,
                         err |-> "none", reqs |-> 0, data |-> d]
             /\ last'.tok /= NullToken
             /\ frame'[c] = Idle
             /\ tokensIssued' = tokensIssued]_vars

(* C1 as amended: the same for every accepted configuration whose lifetime *)
(* (given or default) is above zero; with a lifetime of zero the refresh   *)
(* threshold is the generation time itself.                                *)
C1_NoRefreshAtTimeZeroPositiveLifetime ==
    [][\A c \in VUs : \A d \in DataArgs :
          (/\ GetToken(c, d)
           /\ d /= 0
           /\ tokenCache[c] = EmptyCache
           /\ setupData[d].tokenManager.config.expirySeconds > 0
           /\ setupData[d].tokenManager.generatedAt = now)
          => /\ last' = [ctx |-> c, op |-> "get", res |-> "return",
                         tok |-> setupData[d].tokenManager.token,
                         err |-> "none", reqs |-> 0, data |-> d]
             /\ last'.tok /= NullToken
             /\ frame'[c] = Idle
             /\ tokensIssued' = tokensIssued]_vars

C1_Witness ==
    /\ last.op = "get" /\ last.res = "return" /\ last.reqs = 0
    /\ last.data /= 0
    /\ last.tok /= NullToken
    /\ last.tok = setupData[last.data].tokenManager.token
    /\ setupData[last.data].tokenManager.generatedAt = now

(* C2: a getToken call at a time now >= t0 + 0.8*L makes exactly one token *)
(* request, a call before that time makes none (t0 the generation time, L  *)
(* the lifetime of the cache the call works on).                           *)
C2_RefreshExactlyFromThreshold ==
    [][\A c \in VUs : \A d \in DataArgs :
          LET cache == IF tokenCache[c].config = NullConfig /\ d /= 0
                       THEN setupData[d].tokenManager ELSE tokenCache[c]
          IN  (GetToken(c, d) /\ cache.token /= NullToken)
              => IF 10 * (now - cache.generatedAt)
                        >= 8 * cache.config.expirySeconds * 1000
                 THEN frame'[c] = [op |-> "get", data |-> d]
                 ELSE frame'[c] = Idle /\ last'.reqs = 0]_vars

(* C3: a getToken whose refresh attempt fails, whatever the failure of the *)
(* token request, returns the previously cached token, raises no error and *)
(* leaves the cache as it was.                                             *)
C3_FailedRefreshReturnsStale ==
    [][\A c \in VUs : \A resp \in Responses :
          (/\ Response(c, resp)
           /\ frame[c].op = "get"
           /\ ~(resp.status \in {200, 201} /\ resp.body = "json_token"))
          => /\ last'.op = "get" /\ last'.res = "return"
             /\ last'.tok = tokenCache[c].token
             /\ tokenCache'[c] = tokenCache[c]]_vars

(* C4: whenever a VM that is not inside a handler holds a token, expiresAt *)
(* is generatedAt plus the configured lifetime.                            *)
C4_ExpiryIsGenerationPlusLifetime ==
    \A c \in {SetupCtx} \cup VUs :
        (frame[c].op = "idle" /\ tokenCache[c].token /= NullToken)
        => tokenCache[c].expiresAt
              = tokenCache[c].generatedAt
                    + tokenCache[c].config.expirySeconds * 1000

(* C5: no two VUs have a token request in flight at the same time to       *)
(* refresh the same token (the same expiry).                               *)
C5_OneRefreshInFlight ==
    \A v \in FleetVUs : \A w \in FleetVUs :
        (v /= w /\ frame[v].op = "get" /\ frame[w].op = "get")
        => tokenCache[v].expiresAt /= tokenCache[w].expiresAt

(* C6: after setup() has initialised for the admin and then for the user   *)
(* and returned both snapshots, getToken(data.adminToken) returns a token  *)
(* issued for the admin and getToken(data.userToken) one issued for the    *)
(* user.                                                                   *)
C6_TokenOfEachSnapshot ==
    (/\ phase = "run"
     /\ snaps = <<1, 2>>
     /\ last.op = "get" /\ last.res = "return"
     /\ last.data /= 0)
    => last.tok.user = snaps[last.data]

(* C7: a token generation makes one request and succeeds (cache updated,   *)
(* token returned) exactly when the status is 200 or 201 and the token     *)
(* path resolves to a non-null value; otherwise it returns the failure     *)
(* indicator and leaves the cache as it was.  forceRefreshToken hands its  *)
(* caller the result of the generation as it is.                           *)
C7_GenerationSucceedsIff ==
    [][\A c \in VUs : \A resp \in Responses :
          (Response(c, resp) /\ frame[c].op = "force")
          => /\ last'.op = "force" /\ last'.res = "return" /\ last'.reqs = 1
             /\ IF /\ resp.status \in {200, 201}
                   /\ resp.body \in {"json_falsy", "json_token"}
                THEN /\ last'.tok /= NullToken
                     /\ tokenCache'[c].token = last'.tok
                     /\ tokenCache'[c].generatedAt = now
                ELSE /\ last'.tok = NullToken
                     /\ tokenCache'[c] = tokenCache[c]]_vars

C8_ConfigErrorLeavesCache ==
    [][\A config \in Configs :
          (/\ InitTokenManager(config)
           /\ (config.url = 0 \/ config.username = 0 \/ config.password = 0))
          => /\ last'.op = "init" /\ last'.res = "throw" /\ last'.reqs = 0
             /\ last'.err \in {"Token URL is required",
                               "Username and password are required"}
             /\ frame'[SetupCtx] = Idle
             /\ tokenCache' = tokenCache]_vars

C8_Witness ==
    /\ last.op = "init" /\ last.res = "throw" /\ last.reqs = 0
    /\ last.err = "Username and password are required"
    /\ tokenCache[SetupCtx].token /= NullToken

C11_IndicesDifferAcrossVUs ==
    (/\ dataPrev.index /= Null /\ dataCall.index /= Null
     /\ dataPrev.vu /= dataCall.vu
     /\ dataPrev.iter < 1000 /\ dataCall.iter < 1000)
    => /\ dataPrev.index = (dataPrev.vu - 1) * 1000 + dataPrev.iter
       /\ dataCall.index = (dataCall.vu - 1) * 1000 + dataCall.iter
       /\ dataPrev.index /= dataCall.index
       /\ (dataPrev.res = "row" /\ dataCall.res = "row")
              => dataPrev.row /= dataCall.row

C11_Witness ==
    /\ dataPrev.vu = 1 /\ dataPrev.iter = 999 /\ dataPrev.res = "row"
    /\ dataCall.vu = 2 /\ dataCall.iter = 0 /\ dataCall.res = "row"
    /\ dataPrev.row /= dataCall.row

(* C12: any two distinct (vuId, iteration) pairs for which getUniqueData   *)
(* returns a row are handed rows at different positions of the dataset.    *)
C12_UniqueRowPerVUAndIteration ==
    (/\ dataPrev.res = "row" /\ dataCall.res = "row"
     /\ <<dataPrev.vu, dataPrev.iter>> /= <<dataCall.vu, dataCall.iter>>)
    => dataPrev.row /= dataCall.row

C14_SufficientDataNeverExhausted ==
    (/\ capacity.res = "sufficient"
     /\ dataCall.res /= "none"
     /\ dataCall.vu <= capacity.totalVUs
     /\ dataCall.iter < capacity.iterations)
    => dataCall.res = "row"

(* ------------------------- correlation: claims -------------------------- *)
(* responses whose body decodes to a document *)
JsonResponses == {response \in CorrResponses : response.body = "json"}

(* a.b[5].c has its index out of bounds on every document, and every path  *)
(* crosses b where b is null or missing                                    *)
PathFails(doc, parts) ==
    parts = PathOutOfBounds \/ doc \in {DocNullMember, DocMissingMember}

C16_RequiredFailureStoresNull ==
    ( /\ corrCall.op = "extract"
      /\ corrCall.res = "return"
      /\ corrCall.args.opts.required
      /\ "failed" \in corrCall.log )
    => \A key \in corrCall.keys :
           /\ ~HasCorrelation(correlationStore, key)
           /\ GetCorrelatedValue(correlationStore, key, JNull) = JNull

(* the names of the placeholders of a template *)
PlaceholderNames(url) ==
    {Placeholders(url)[i] : i \in 1..Len(Placeholders(url))}

(* C17: buildCorrelatedUrl without a mapping takes the mapping from the    *)
(* placeholders of the template: with id = 7 and sub = 9 stored,           *)
(* /x/{id}/y/{sub} yields /x/7/y/9; when the correlation of a placeholder  *)
(* is missing or null the result is null and a message is logged, and a    *)
(* URL is returned only when every placeholder has its correlation.        *)
C17_AutoMappedUrlOrNull ==
    [][\A urlTemplate \in Templates :
          (corrCall'.op = "build" /\ BuildCorrelatedUrl(urlTemplate, NoMapping))
          => /\ ( /\ urlTemplate = UrlIdSub
                  /\ correlationStore["id"] = JNum(7)
                  /\ correlationStore["sub"] = JNum(9) )
                => /\ corrCall'.value.t = "url"
                   /\ Render(corrCall'.value.pieces) = "/x/7/y/9"
             /\ (\E name \in PlaceholderNames(urlTemplate) :
                     ~HasCorrelation(correlationStore, name))
                => /\ corrCall'.value = JNull
                   /\ "missing" \in corrCall'.log
             /\ (\A name \in PlaceholderNames(urlTemplate) :
                     HasCorrelation(correlationStore, name))
                => /\ corrCall'.value.t = "url"
                   /\ corrCall'.log = {}]_vars

(* /x/7/y/9 was built from the placeholders with id = 7 and sub = 9 stored *)
C17_Witness ==
    /\ corrCall.op = "build"
    /\ corrCall.keys = {"id", "sub"}
    /\ correlationStore["id"] = JNum(7)
    /\ correlationStore["sub"] = JNum(9)
    /\ corrCall.value.t = "url"
    /\ Render(corrCall.value.pieces) = "/x/7/y/9"

(* C18: a URL returned by buildCorrelatedUrl holds no {name} any more for  *)
(* any placeholder name of the mapping, also when the template holds the   *)
(* same placeholder more than once.                                        *)
C18_NoMappedPlaceholderLeft ==
    (corrCall.op = "build" /\ corrCall.value.t = "url")
    => \A name \in corrCall.keys :
           \A i \in 1..Len(corrCall.value.pieces) :
               corrCall.value.pieces[i] /= Ph(name)

(* fallback values handed to getCorrelatedValue *)
Fallbacks == {JNull, JNum(7)}

(* C19: after clearCorrelations(), for every key stored before the clear   *)
(* getCorrelatedValue(key, fallback) returns the fallback and              *)
(* hasCorrelation(key) is false, and this remains so until an extraction   *)
(* or storeCorrelation stores under that key again.                        *)
C19_ClearedUntilStoredAgain ==
    [][ /\ ClearCorrelations
           => \A key \in CorrKeys, fallback \in Fallbacks :
                  /\ GetCorrelatedValue(correlationStore', key, fallback)
                         = fallback
                  /\ ~HasCorrelation(correlationStore', key)
        /\ \A key \in CorrKeys :
               (correlationStore[key] = Absent /\ correlationStore'[key] /= Absent)
               => /\ corrCall'.op \in {"extract", "store"}
                  /\ corrCall'.keys = {key} ]_vars

(* both keys held a value when clearCorrelations() emptied the store *)
C19_Witness ==
    /\ corrCall.op = "clear"
    /\ corrCall.keys = CorrKeys
    /\ \A key \in CorrKeys :
           /\ ~HasCorrelation(correlationStore, key)
           /\ GetCorrelatedValue(correlationStore, key, JNum(7)) = JNum(7)

(* every key of the list has an entry whose value is neither null nor      *)
(* undefined                                                               *)
AllStored(store, requiredKeys) ==
    \A key \in requiredKeys : store[key] /= Absent /\ ~IsNullish(store[key])

IsCreateUserConfig(config) ==
    /\ config.expectedStatus = 201
    /\ config.expectedStatuses = <<>>
    /\ config.jsonSchema = SchemaIdString
    /\ config.customChecks = <<>>

(* C21: validateResponse returns the conjunction of the predicates built   *)
(* from its config: under {expectedStatus: 201, jsonSchema: {id:           *)
(* 'string'}} a response with status 201 and body {"id":"u1"} gives true   *)
(* and leaves the business-error counter alone, and the same response with *)
(* status 500 gives false and increments the counter.                      *)
C21_ValidateIsConjunction ==
    [][\A config \in validCall'.config :
          ( /\ validCall'.op = "validate"
            /\ IsCreateUserConfig(config)
            /\ received.body = BodyUser )
          => /\ validCall'.result = (FALSE \notin ConfiguredChecks(received, config))
             /\ received.status = 201
                => validCall'.result /\ businessErrors' = businessErrors
             /\ received.status = 500
                => ~validCall'.result /\ businessErrors' = businessErrors + 1]_vars

(* C22: the response-time ceiling does not fail the overall result: a      *)
(* response that took 5 s or more and satisfies every other configured     *)
(* predicate is validated as true.                                         *)
C22_SlowResponseStillValid ==
    \A config \in validCall.config :
        ( /\ validCall.op = "validate"
          /\ config.apiName /= NoApiName
          /\ received.duration >= ResponseTimeCeiling
          /\ FALSE \notin ConfiguredChecks(received, config) )
        => validCall.result

(* C23: every validateResponse call on a status outside [200,300) adds     *)
(* exactly one to the business-error counter and records a 1 in the rate,  *)
(* and every call on a status inside it leaves the counter unchanged and   *)
(* records a 0, whatever the config, one without apiName included.         *)
C23_BusinessErrorCountedPerCall ==
    [][validCall'.op = "validate"
       => IF IsBusinessError(received)
          THEN /\ businessErrors' = businessErrors + 1
               /\ businessErrorRate' =
                      [businessErrorRate EXCEPT !.ones = @ + 1]
          ELSE /\ businessErrors' = businessErrors
               /\ businessErrorRate' =
                      [businessErrorRate EXCEPT !.zeros = @ + 1]]_vars

(* ------------------------- error logger: claims ------------------------- *)
(* log is what a VM held and after is what it holds one record later *)
OneAppended(log, after) ==
    /\ Len(after) = Len(log) + 1
    /\ \A i \in 1..Len(log) : after[i] = log[i]

(* C24: logError never throws and appends exactly one record to the error  *)
(* log of its VM per call, whatever its arguments (no response, no input   *)
(* data, an empty context); the records already there stay as they are.    *)
C24_LogErrorAppendsOne ==
    [][errCall'.op = "logError"
       => /\ errCall'.res = "return"
          /\ OneAppended(errorLog[errCall'.vm], errorLog'[errCall'.vm])
          /\ \A vm \in ErrVMs \ {errCall'.vm} :
                 errorLog'[vm] = errorLog[vm]]_vars

(* logError without response, input data and context appended a second     *)
(* record behind one written from a response                               *)
C24_Witness ==
    /\ errCall.op = "logError"
    /\ errCall.res = "return"
    /\ Len(errorLog[1]) = 2
    /\ errorLog[1][1].statusCode = "500"
    /\ errorLog[1][2] = ErrorEntry(1, "Create_User", NoErrResponse, "null", "")
    /\ errorLog[1][2].statusCode = "N/A"
    /\ errorLog[1][2].responseBody = NA
    /\ errorLog[1][2].inputData = "N/A"

(* C25: no failure is swallowed silently: a getUniqueData call that        *)
(* returns null, for an empty dataset or for exhaustion, has logged an     *)
(* entry during that call, whatever its options.                           *)
C25_NullResultIsLogged ==
    dataCall.res = "null" => dataCall.logged

(* after holds every record of log, unaltered and in place *)
Keeps(log, after) ==
    /\ Len(after) >= Len(log)
    /\ \A i \in 1..Len(log) : after[i] = log[i]

(* C26 as stated: across the exported operations of the error logger the   *)
(* number of records never decreases and a record, once appended, is       *)
(* never removed or altered.                                               *)
C26_ErrorLogOnlyGrows ==
    [][\A vm \in ErrVMs : Keeps(errorLog[vm], errorLog'[vm])]_vars

(* C26 amended: across the exported operations other than clearErrorLog    *)
(* the number of records never decreases and a record, once appended, is   *)
(* never removed or altered; clearErrorLog empties the log of its VM and   *)
(* leaves the logs of the other VMs alone.                                 *)
C26_ErrorLogGrowsUntilCleared ==
    [][\A vm \in ErrVMs :
          IF errCall'.op = "clearErrorLog" /\ errCall'.vm = vm
          THEN errorLog'[vm] = <<>>
          ELSE Keeps(errorLog[vm], errorLog'[vm])]_vars

(* two records of different kinds have accumulated *)
C26_Witness ==
    /\ errCall.op = "logValidationFailure"
    /\ errCall.res = "return"
    /\ Len(errorLog[1]) = 2
    /\ errorLog[1][1].errorType = "CORRELATION_FAILURE"
    /\ errorLog[1][2].errorType = "VALIDATION_FAILURE"

(* how many records of a log carry an API name *)
CountOf(log, apiName) ==
    Cardinality({i \in 1..Len(log) : log[i].apiName = apiName})

(* the counts of the groups of a summary, added up *)
RECURSIVE SumOfCounts(_)
SumOfCounts(groups) ==
    IF groups = <<>> THEN 0 ELSE Head(groups).count + SumOfCounts(Tail(groups))

(* the first records of an API in a log, in the order they were appended,  *)
(* at most limit of them                                                   *)
FirstOf(log, apiName, limit) ==
    LET ofApi(entry) == entry.apiName = apiName
        errors == SelectSeq(log, ofApi)
    IN  SubSeq(errors, 1, IF Len(errors) < limit THEN Len(errors) ELSE limit)

(* C27: formatErrorSummary groups the records by API name: every name with *)
(* a record appears exactly once, with its number of records; the counts   *)
(* add up to the number of records; a group lists its first 3 records at   *)
(* most, in the order they were appended; a group of n > 3 records reports *)
(* n - 3 more; an empty log gives 'No errors logged'.                      *)
C27_SummaryGroupsByApi ==
    errCall.op = "formatErrorSummary"
    => LET log == errorLog[errCall.vm]
           groups == errCall.summary.groups
       IN  /\ errCall.summary.none <=> log = <<>>
           /\ errCall.summary.none => groups = <<>>
           /\ \A i \in 1..Len(log) :
                  Cardinality({g \in 1..Len(groups) :
                                  groups[g].apiName = log[i].apiName}) = 1
           /\ \A g \in 1..Len(groups) :
                  /\ groups[g].count >= 1
                  /\ groups[g].count = CountOf(log, groups[g].apiName)
                  /\ groups[g].shown = FirstOf(log, groups[g].apiName, ShownLimit)
                  /\ groups[g].omitted =
                         (IF groups[g].count > ShownLimit
                          THEN groups[g].count - ShownLimit ELSE 0)
           /\ SumOfCounts(groups) = Len(log)
           /\ errCall.summary.total = Len(log)

(* a summary of two APIs, one of them with four records of which three are *)
(* listed and one more is reported                                         *)
C27_Witness ==
    /\ errCall.op = "formatErrorSummary"
    /\ Len(errCall.summary.groups) = 2
    /\ \E g \in 1..2 :
           /\ errCall.summary.groups[g].count = ShownLimit + 1
           /\ Len(errCall.summary.groups[g].shown) = ShownLimit
           /\ errCall.summary.groups[g].omitted = 1
           /\ errCall.summary.groups[g].shown[1]
                  /= errCall.summary.groups[g].shown[ShownLimit]

(* C28: the summary that handleSummary prints at the end of the run        *)
(* includes every record the VUs have logged: each is counted in the group *)
(* of its API.                                                             *)
C28_SummaryIncludesVURecords ==
    errCall.op = "handleSummary"
    => \A vu \in ErrVUs :
           \A i \in 1..Len(errorLog[vu]) :
               \E g \in 1..Len(errCall.summary.groups) :
                   /\ errCall.summary.groups[g].apiName = errorLog[vu][i].apiName
                   /\ errCall.summary.groups[g].count
                          >= CountOf(errorLog[vu], errorLog[vu][i].apiName)

(* ------------------------ token manager: the lock ----------------------- *)
(* C29: refreshLock is released whenever getToken finishes: after a        *)
(* getToken call that returned, or whose token generation raised an        *)
(* exception, refreshLock of that VM is false.                             *)
C29_LockReleasedAfterGetToken ==
    last.op = "get" => ~refreshLock[last.ctx]

(* C30: a failed refresh leaves generatedAt as it was, and every getToken  *)
(* call on a cached token past its refresh threshold issues a token        *)
(* request, however many refreshes have failed before, while a call before *)
(* the threshold issues none.                                              *)
C30_RefreshRetriedUntilSuccess ==
    [][\A c \in VUs :
          /\ ( /\ frame[c].op = "get"
               /\ frame'[c].op = "idle"
               /\ tokensIssued' = tokensIssued )
             => tokenCache'[c].generatedAt = tokenCache[c].generatedAt
          /\ \A d \in DataArgs :
                 ( /\ GetToken(c, d)
                   /\ CacheAfterRestore(c, d).token /= NullToken )
                 => IF NeedsRefresh(CacheAfterRestore(c, d), now)
                    THEN frame'[c].op = "get"
                    ELSE frame'[c].op = "idle" /\ last'.reqs = 0]_vars

====
